---- MODULE Spec2Model ----
(***************************************************************************)
(* lytgae: a bridge from the gateway event stream of The Things Stack to   *)
(* Prometheus gauges (src/main.go).                                        *)
(*                                                                         *)
(* Two goroutines started by main: the consumer (Client.getEvents) reads   *)
(* the stream and sends every converted event on an unbuffered channel;    *)
(* the reporter (the anonymous goroutine of main) takes events off the     *)
(* channel, replaces the Gateway record of every gateway the event names   *)
(* and renders the whole map (Gateway.String sets the gauges).  main       *)
(* itself sits in http.ListenAndServe.                                     *)
(*                                                                         *)
(* Timestamps are kept with the resolution the gauges have (seconds of     *)
(* Unix time).  An optional value (a nil *timestamppb.Timestamp, a local   *)
(* variable not yet assigned) is a sequence of length 0 or 1.              *)
(***************************************************************************)
EXTENDS Integers, Sequences, FiniteSets, TLC

VARIABLES
    gateways,   \* c.gateways: the identifiers subscribed to (set by NewClient)
    esc,        \* c.esc: the current stream session; 0 is nil, n the n-th opened
    cpc,        \* position of getEvents: connect, recv, sleep, reopen, send, done
    ret,        \* the error getEvents returned ("none" while it runs)
    eEvent,     \* the event getEvents is sending on the channel (line 192)
    rpc,        \* position of the reporter goroutine: wait, process
    ev,         \* the reporter's loop variable ev (line 224)
    store,      \* main's map gateways: gateway id -> Gateway (line 219)
    gwTime,     \* the gauge vector gateway_time:  <<gateway, type>> -> value
    gwCount,    \* the gauge vector gateway_count: <<gateway, type>> -> value
    summary,    \* the lines logged by the last render (lines 252-256)
    process,    \* running while main sits in ListenAndServe, exited after
    opens,      \* history: every Stream call made, with its request and outcome
    sleeps,     \* history: number of time.Sleep(5s) calls made
    recvLog,    \* history: what every Recv call returned
    decoded,    \* history: the events FromProto converted, in order
    taken,      \* history: the events the reporter took off the channel
    applied     \* history: the events the reporter applied to the map

vars == <<gateways, esc, cpc, ret, eEvent, rpc, ev, store, gwTime, gwCount,
          summary, process, opens, sleeps, recvLog, decoded, taken, applied>>

consumerVars == <<esc, cpc, ret, eEvent, opens, sleeps, recvLog, decoded>>
reporterVars == <<rpc, ev, store, gwTime, gwCount, summary, taken, applied>>

----------------------------------------------------------------------------
(* Bounds and input domains                                                *)

\* Number of Recv calls explored.
MaxRecv == 3

\* The event name the reporter recognizes (line 225).
StatsName == "gs.gateway.connection.stats"

\* Gateway ids in ascending string order (slices.Sort, line 253).
IdOrder == <<"gw1", "gw2">>

GatewayIdSet == {IdOrder[i] : i \in DOMAIN IdOrder}

\* An entity identifier holding a gateway id (line 120).
EntityId(gw) == [gatewayId |-> gw]

\* The gateway lists NewClient can end with (lines 112-122).
GatewayLists == {<<EntityId("gw1")>>, <<EntityId("gw1"), EntityId("gw2")>>}

\* A ttnpb.GatewayConnectionStats message; a timestamp field is <<>> when
\* the message does not carry it.
StatsMsg(ca, uc, ut, dc, dt, tc, tt) ==
    [connectedAt |-> ca,
     uplinkCount |-> uc, lastUplinkReceivedAt |-> ut,
     downlinkCount |-> dc, lastDownlinkReceivedAt |-> dt,
     txAcknowledgmentCount |-> tc, lastTxAcknowledgmentReceivedAt |-> tt]

\* A ttnpb.Event as Recv delivers it.  payload is "stats" (data is a
\* GatewayConnectionStats), "other" (data of another message type) or
\* "invalid" (data events.FromProto cannot unmarshal).
ProtoEvent(name, payload, ids, stats) ==
    [name |-> name, payload |-> payload, ids |-> ids, stats |-> stats]

NoStats == StatsMsg(<<>>, 0, <<>>, 0, <<>>, 0, <<>>)

ProtoEvents ==
    { ProtoEvent(StatsName, "stats", <<EntityId("gw1")>>,
                 StatsMsg(<<10>>, 3, <<11>>, 0, <<>>, 0, <<>>)),
      ProtoEvent(StatsName, "stats", <<EntityId("gw1")>>,
                 StatsMsg(<<>>, 5, <<12>>, 0, <<>>, 0, <<>>)),
      ProtoEvent(StatsName, "stats", <<EntityId("gw1"), EntityId("gw2")>>,
                 StatsMsg(<<10>>, 7, <<>>, 1, <<13>>, 2, <<14>>)),
      ProtoEvent(StatsName, "stats", <<EntityId("gw2")>>, NoStats),
      ProtoEvent(StatsName, "stats", <<EntityId("gw2"), EntityId("gw1")>>,
                 StatsMsg(<<16>>, 0, <<>>, 0, <<15>>, 4, <<17>>)),
      ProtoEvent(StatsName, "other", <<EntityId("gw1")>>, NoStats),
      ProtoEvent("gs.up.receive", "other", <<EntityId("gw1")>>, NoStats),
      ProtoEvent(StatsName, "invalid", <<EntityId("gw1")>>, NoStats) }

\* The classes of error Recv can return (lines 173, 176, 184).
StreamErrors == {"Canceled", "Unavailable", "Other"}

\* The elements of a sequence.
Range(s) == {s[i] : i \in DOMAIN s}

Last(s) == s[Len(s)]

----------------------------------------------------------------------------
(* Conversions                                                             *)

\* timestamppb.Timestamp.AsTime followed by Time.Unix: a nil timestamp is
\* the Unix epoch.
AsTime(ts) == IF ts = <<>> THEN 0 ELSE ts[1]

\* id.GetGatewayIds().GetGatewayId() (line 236).
GetGatewayId(id) == id.gatewayId

\* The nil event FromProto returns together with an error.
NilEvent == [name |-> "", identifiers |-> <<>>,
             data |-> [type |-> "nil", stats |-> NoStats]]

\* events.FromProto (line 187): fails on data it cannot unmarshal, otherwise
\* gives an event with the name, the identifiers and the typed data.
FromProto(p) ==
    IF p.payload = "invalid"
    THEN [ok |-> FALSE, event |-> NilEvent]
    ELSE [ok |-> TRUE,
          event |-> [name |-> p.name,
                     identifiers |-> p.ids,
                     data |-> IF p.payload = "stats"
                              THEN [type |-> "GatewayConnectionStats",
                                    stats |-> p.stats]
                              ELSE [type |-> "other", stats |-> NoStats]]]

----------------------------------------------------------------------------
(* Client.connectEventstream and Client.getEvents                          *)

\* Variant of StreamRequest: the first identifier is lost.
StreamRequestTail(gws) == [Identifiers |-> Tail(gws)]

\* The request of connectEventstream (lines 151-153).
StreamRequest(gws) == [Identifiers |-> gws]

\* Variant of AfterRecvErr: every error but Canceled is answered by a
\* reconnect.
AfterRecvErrReconnectAll(err) ==
    IF err = "Canceled" THEN "recv" ELSE "sleep"

\* Variant of AfterRecvErr: Canceled is answered like Unavailable.
AfterRecvErrCanceledReconnects(err) ==
    IF err \in {"Canceled", "Unavailable"} THEN "sleep" ELSE "done"

\* Where getEvents goes after Recv returned an error of class err
\* (lines 172-185).
AfterRecvErr(err) ==
    IF err = "Canceled" THEN "recv"
    ELSE IF err = "Unavailable" THEN "sleep"
    ELSE "done"

\* Where getEvents goes after FromProto (lines 187-192).
AfterDecode(d) == IF d.ok THEN "send" ELSE "done"

Init ==
    /\ gateways \in GatewayLists
    /\ esc = 0
    /\ cpc = "connect"
    /\ ret = "none"
    /\ eEvent = <<>>
    /\ rpc = "wait"
    /\ ev = <<>>
    /\ store = [k \in {} |-> 0]
    /\ gwTime = [k \in {} |-> 0]
    /\ gwCount = [k \in {} |-> 0]
    /\ summary = <<>>
    /\ process = "running"
    /\ opens = <<>>
    /\ sleeps = 0
    /\ recvLog = <<>>
    /\ decoded = <<>>
    /\ taken = <<>>
    /\ applied = <<>>

\* Variant of Connect: a failed open ends getEvents without an error.
ConnectReturnsNil ==
    /\ process = "running"
    /\ cpc = "connect"
    /\ \E ok \in BOOLEAN :
        /\ opens' = Append(opens, [req |-> StreamRequest(gateways), ok |-> ok])
        /\ esc' = IF ok THEN esc + 1 ELSE esc
        /\ cpc' = IF ok THEN "recv" ELSE "done"
    /\ UNCHANGED <<gateways, ret, eEvent, sleeps, recvLog, decoded, process>>
    /\ UNCHANGED reporterVars

\* connectEventstream at the start of getEvents (lines 165-168).
Connect ==
    /\ process = "running"
    /\ cpc = "connect"
    /\ \E ok \in BOOLEAN :
        /\ opens' = Append(opens, [req |-> StreamRequest(gateways), ok |-> ok])
        /\ IF ok
           THEN /\ esc' = esc + 1
                /\ cpc' = "recv"
                /\ ret' = ret
           ELSE /\ esc' = esc
                /\ cpc' = "done"
                /\ ret' = "connectEventstream"
    /\ UNCHANGED <<gateways, eEvent, sleeps, recvLog, decoded, process>>
    /\ UNCHANGED reporterVars

\* Recv returns an error (lines 171-177, 184).
RecvError ==
    /\ process = "running"
    /\ cpc = "recv"
    /\ Len(recvLog) < MaxRecv
    /\ \E err \in StreamErrors :
        /\ recvLog' = Append(recvLog, [kind |-> err])
        /\ cpc' = AfterRecvErr(err)
        /\ ret' = IF AfterRecvErr(err) = "done" THEN "recv" ELSE ret
    /\ UNCHANGED <<gateways, esc, eEvent, opens, sleeps, decoded, process>>
    /\ UNCHANGED reporterVars

\* time.Sleep(5 * time.Second) (line 178).
Sleep ==
    /\ process = "running"
    /\ cpc = "sleep"
    /\ sleeps' = sleeps + 1
    /\ cpc' = "reopen"
    /\ UNCHANGED <<gateways, esc, ret, eEvent, opens, recvLog, decoded, process>>
    /\ UNCHANGED reporterVars

\* Variant of Reopen: a failed re-open is answered by another sleep and
\* another re-open.
ReopenRetries ==
    /\ process = "running"
    /\ cpc = "reopen"
    /\ \E ok \in BOOLEAN :
        /\ opens' = Append(opens, [req |-> StreamRequest(gateways), ok |-> ok])
        /\ esc' = IF ok THEN esc + 1 ELSE esc
        /\ ret' = IF ok THEN "recv" ELSE ret
        /\ cpc' = IF ok THEN "done" ELSE "sleep"
    /\ UNCHANGED <<gateways, eEvent, sleeps, recvLog, decoded, process>>
    /\ UNCHANGED reporterVars

\* connectEventstream after the sleep (lines 179-184): a failure returns
\* "during reconnect"; after a success control leaves the if statement and
\* reaches the return of line 184.
Reopen ==
    /\ process = "running"
    /\ cpc = "reopen"
    /\ \E ok \in BOOLEAN :
        /\ opens' = Append(opens, [req |-> StreamRequest(gateways), ok |-> ok])
        /\ esc' = IF ok THEN esc + 1 ELSE esc
        /\ ret' = IF ok THEN "recv" ELSE "during reconnect"
    /\ cpc' = "done"
    /\ UNCHANGED <<gateways, eEvent, sleeps, recvLog, decoded, process>>
    /\ UNCHANGED reporterVars

\* Recv returns an event, FromProto converts it (lines 171, 187-192).  The
\* identifiers of the event are not compared with c.gateways: whatever Recv
\* returns is converted and sent.
RecvEvent ==
    /\ process = "running"
    /\ cpc = "recv"
    /\ Len(recvLog) < MaxRecv
    /\ \E p \in ProtoEvents :
        LET d == FromProto(p) IN
        /\ recvLog' = Append(recvLog, [kind |-> "event", p |-> p])
        /\ cpc' = AfterDecode(d)
        /\ ret' = IF AfterDecode(d) = "done" THEN "FromProto" ELSE ret
        /\ eEvent' = IF AfterDecode(d) = "send" THEN <<d.event>> ELSE eEvent
        /\ decoded' = IF d.ok THEN Append(decoded, d.event) ELSE decoded
    /\ UNCHANGED <<gateways, esc, opens, sleeps, process>>
    /\ UNCHANGED reporterVars

\* Variant of Handoff: a channel with a buffer.  The send completes at once
\* and the reporter takes the oldest event not yet taken, whenever it waits.
HandoffBuffered ==
    /\ process = "running"
    /\ \/ /\ cpc = "send"
          /\ cpc' = "recv"
          /\ UNCHANGED <<ev, taken, rpc>>
       \/ /\ rpc = "wait"
          /\ Len(taken) < Len(decoded)
          /\ ev' = <<decoded[Len(taken) + 1]>>
          /\ taken' = Append(taken, decoded[Len(taken) + 1])
          /\ rpc' = "process"
          /\ cpc' = cpc
    /\ UNCHANGED <<gateways, esc, ret, eEvent, opens, sleeps, recvLog, decoded,
                   process, store, gwTime, gwCount, summary, applied>>

\* Variant of Handoff: a send that does not wait for the reporter; the event
\* is dropped when the reporter is busy.
HandoffNonBlocking ==
    /\ process = "running"
    /\ cpc = "send"
    /\ cpc' = "recv"
    /\ IF rpc = "wait"
       THEN /\ ev' = eEvent
            /\ taken' = Append(taken, eEvent[1])
            /\ rpc' = "process"
       ELSE UNCHANGED <<ev, taken, rpc>>
    /\ UNCHANGED <<gateways, esc, ret, eEvent, opens, sleeps, recvLog, decoded,
                   process, store, gwTime, gwCount, summary, applied>>

\* The send of line 192 meets the receive of line 224: the channel of line
\* 220 has no buffer, so the send completes when the reporter takes the value.
Handoff ==
    /\ process = "running"
    /\ cpc = "send"
    /\ rpc = "wait"
    /\ ev' = eEvent
    /\ taken' = Append(taken, eEvent[1])
    /\ cpc' = "recv"
    /\ rpc' = "process"
    /\ UNCHANGED <<gateways, esc, ret, eEvent, opens, sleeps, recvLog, decoded,
                   process, store, gwTime, gwCount, summary, applied>>

----------------------------------------------------------------------------
(* Gateway.String and the reporter goroutine                               *)

\* Variant of Put: the assignment replaces the map by one holding k alone.
PutAlone(m, k, v) == [x \in {k} |-> v]

\* m[k] := v on a Go map or a gauge vector.
Put(m, k, v) == [x \in DOMAIN m \cup {k} |-> IF x = k THEN v ELSE m[x]]

\* The Gateway literal of lines 238-247.
NewGateway(gwid, data) ==
    [id            |-> gwid,
     connectTime   |-> AsTime(data.connectedAt),
     uplinkCount   |-> data.uplinkCount,
     downlinkCount |-> data.downlinkCount,
     txAckCount    |-> data.txAcknowledgmentCount,
     uplinkTime    |-> AsTime(data.lastUplinkReceivedAt),
     downlinkTime  |-> AsTime(data.lastDownlinkReceivedAt),
     txAckTime     |-> AsTime(data.lastTxAcknowledgmentReceivedAt)]

\* Variant of ApplyIds: a field the event leaves at zero keeps the value the
\* gateway's record had.
Keep(new, old) == IF new = 0 THEN old ELSE new
MergeGateway(new, old) ==
    [id            |-> new.id,
     connectTime   |-> Keep(new.connectTime, old.connectTime),
     uplinkCount   |-> Keep(new.uplinkCount, old.uplinkCount),
     downlinkCount |-> Keep(new.downlinkCount, old.downlinkCount),
     txAckCount    |-> Keep(new.txAckCount, old.txAckCount),
     uplinkTime    |-> Keep(new.uplinkTime, old.uplinkTime),
     downlinkTime  |-> Keep(new.downlinkTime, old.downlinkTime),
     txAckTime     |-> Keep(new.txAckTime, old.txAckTime)]
RECURSIVE ApplyIdsMerging(_, _, _)
ApplyIdsMerging(m, ids, data) ==
    IF ids = <<>>
    THEN m
    ELSE LET gwid == GetGatewayId(Head(ids))
             new  == NewGateway(gwid, data)
         IN  ApplyIdsMerging(
                 Put(m, gwid, IF gwid \in DOMAIN m
                              THEN MergeGateway(new, m[gwid]) ELSE new),
                 Tail(ids), data)

\* The loop over ev.Identifiers() (lines 235-250), in the order of the list.
RECURSIVE ApplyIds(_, _, _)
ApplyIds(m, ids, data) ==
    IF ids = <<>>
    THEN m
    ELSE LET gwid == GetGatewayId(Head(ids)) IN
         ApplyIds(Put(m, gwid, NewGateway(gwid, data)), Tail(ids), data)

\* Variant of ApplyEvent: only the first identifier of the event is used.
ApplyEventFirstId(m, e) ==
    ApplyIds(m, SubSeq(e.identifiers, 1, 1), e.data.stats)

\* What the reporter does to the map for one recognized event.
ApplyEvent(m, e) == ApplyIds(m, e.identifiers, e.data.stats)

\* Variant of Recognized: the type of the data is not looked at.
RecognizedByName(e) == e.name = StatsName

\* The reporter handles an event only if it has the stats name (line 225)
\* and its data is a *ttnpb.GatewayConnectionStats (lines 229-233).
Recognized(e) ==
    /\ e.name = StatsName
    /\ e.data.type = "GatewayConnectionStats"

\* Variant of StringSetsTime: the downlink sample is taken from the uplink
\* time.
StringSetsTimeSwapped(g, gt) ==
    LET t1 == IF g.connectTime # 0
              THEN Put(gt, <<g.id, "connect">>, g.connectTime) ELSE gt
        t2 == IF g.uplinkCount # 0
              THEN Put(t1, <<g.id, "uplink">>, g.uplinkTime) ELSE t1
        t3 == IF g.downlinkCount # 0
              THEN Put(t2, <<g.id, "downlink">>, g.uplinkTime) ELSE t2
    IN  IF g.txAckCount # 0
        THEN Put(t3, <<g.id, "txack">>, g.txAckTime) ELSE t3

\* The samples Gateway.String sets on gateway_time (lines 54, 59, 65, 71).
StringSetsTime(g, gt) ==
    LET t1 == IF g.connectTime # 0
              THEN Put(gt, <<g.id, "connect">>, g.connectTime) ELSE gt
        t2 == IF g.uplinkCount # 0
              THEN Put(t1, <<g.id, "uplink">>, g.uplinkTime) ELSE t1
        t3 == IF g.downlinkCount # 0
              THEN Put(t2, <<g.id, "downlink">>, g.downlinkTime) ELSE t2
    IN  IF g.txAckCount # 0
        THEN Put(t3, <<g.id, "txack">>, g.txAckTime) ELSE t3

\* Variant of StringSetsCount: the downlink count is published whatever its
\* value.
StringSetsCountUnguarded(g, gc) ==
    LET c1 == IF g.uplinkCount # 0
              THEN Put(gc, <<g.id, "uplink">>, g.uplinkCount) ELSE gc
        c2 == Put(c1, <<g.id, "downlink">>, g.downlinkCount)
    IN  IF g.txAckCount # 0
        THEN Put(c2, <<g.id, "txack">>, g.txAckCount) ELSE c2

\* The samples Gateway.String sets on gateway_count (lines 60, 66, 72).
StringSetsCount(g, gc) ==
    LET c1 == IF g.uplinkCount # 0
              THEN Put(gc, <<g.id, "uplink">>, g.uplinkCount) ELSE gc
        c2 == IF g.downlinkCount # 0
              THEN Put(c1, <<g.id, "downlink">>, g.downlinkCount) ELSE c1
    IN  IF g.txAckCount # 0
        THEN Put(c2, <<g.id, "txack">>, g.txAckCount) ELSE c2

\* The string Gateway.String returns (lines 50-75): the id and one clause
\* for each part appended.
GatewayString(g) ==
    [id |-> g.id,
     parts |->
        (IF g.connectTime # 0
         THEN <<[clause |-> "connected", last |-> g.connectTime]>> ELSE <<>>)
        \o (IF g.uplinkCount # 0
            THEN <<[clause |-> "uplinks", count |-> g.uplinkCount,
                    last |-> g.uplinkTime]>> ELSE <<>>)
        \o (IF g.downlinkCount # 0
            THEN <<[clause |-> "downlinks", count |-> g.downlinkCount,
                    last |-> g.downlinkTime]>> ELSE <<>>)
        \o (IF g.txAckCount # 0
            THEN <<[clause |-> "txAck", count |-> g.txAckCount,
                    last |-> g.txAckTime]>> ELSE <<>>)]

\* String order of gateway ids.
IdIndex(id) == CHOOSE i \in DOMAIN IdOrder : IdOrder[i] = id
IdLessEq(a, b) == IdIndex(a) <= IdIndex(b)

\* Variant of SortedKeys: the keys in descending order.
RECURSIVE SortedKeysDescending(_)
SortedKeysDescending(S) ==
    IF S = {}
    THEN <<>>
    ELSE LET greatest == CHOOSE x \in S : \A y \in S : IdLessEq(y, x)
         IN  <<greatest>> \o SortedKeysDescending(S \ {greatest})

\* maps.Keys followed by slices.Sort (lines 252-253).
RECURSIVE SortedKeys(_)
SortedKeys(S) ==
    IF S = {}
    THEN <<>>
    ELSE LET least == CHOOSE x \in S : \A y \in S : IdLessEq(x, y)
         IN  <<least>> \o SortedKeys(S \ {least})

\* The render loop (lines 254-256): every gateway of the map, in key order.
RECURSIVE RenderKeys(_, _, _)
RenderKeys(m, ks, out) ==
    IF ks = <<>>
    THEN out
    ELSE LET g == m[Head(ks)] IN
         RenderKeys(m, Tail(ks),
                    [time  |-> StringSetsTime(g, out.time),
                     count |-> StringSetsCount(g, out.count),
                     lines |-> Append(out.lines, GatewayString(g))])

\* Variant of Render: the gauge vectors are emptied before the render.
RenderAfterReset(m, gt, gc) ==
    RenderKeys(m, SortedKeys(DOMAIN m),
               [time |-> [k \in {} |-> 0], count |-> [k \in {} |-> 0], lines |-> <<>>])

Render(m, gt, gc) ==
    RenderKeys(m, SortedKeys(DOMAIN m), [time |-> gt, count |-> gc, lines |-> <<>>])

\* One iteration of the reporter's loop body (lines 225-256).
Process ==
    /\ process = "running"
    /\ rpc = "process"
    /\ LET e == ev[1] IN
        IF Recognized(e)
        THEN LET m == ApplyEvent(store, e)
                 r == Render(m, gwTime, gwCount)
             IN  /\ store' = m
                 /\ gwTime' = r.time
                 /\ gwCount' = r.count
                 /\ summary' = r.lines
                 /\ applied' = Append(applied, e)
        ELSE UNCHANGED <<store, gwTime, gwCount, summary, applied>>
    /\ rpc' = "wait"
    /\ UNCHANGED <<gateways, ev, taken, process>>
    /\ UNCHANGED consumerVars

\* http.ListenAndServe returns (lines 261-262): main returns and the process
\* ends, goroutines included.
ServeFails ==
    /\ process = "running"
    /\ process' = "exited"
    /\ UNCHANGED <<gateways>>
    /\ UNCHANGED consumerVars
    /\ UNCHANGED reporterVars

Next ==
    \/ Connect
    \/ RecvError
    \/ Sleep
    \/ Reopen
    \/ RecvEvent
    \/ Handoff
    \/ Process
    \/ ServeFails

Spec == Init /\ [][Next]_vars

\* The sleep of line 178 ends and the Stream call of line 154 returns.
FairSpec == Spec /\ WF_vars(Sleep) /\ WF_vars(Reopen)

\* The step of Process as the reporter's position shows it: an iteration of
\* the loop body ends and the reporter is back at the channel.
ProcessEnds == process = "running" /\ rpc = "process" /\ rpc' = "wait"

\* The reporter goroutine is scheduled: an iteration of its loop body ends.
\* Only Process changes rpc from process to wait, so this is weak fairness
\* of Process.
ReporterFairSpec == Spec /\ WF_rpc(ProcessEnds)

TypeOK ==
    /\ gateways \in GatewayLists
    /\ esc \in 0..2
    /\ cpc \in {"connect", "recv", "sleep", "reopen", "send", "done"}
    /\ ret \in {"none", "connectEventstream", "during reconnect", "recv", "FromProto"}
    /\ rpc \in {"wait", "process"}
    /\ process \in {"running", "exited"}
    /\ Len(eEvent) <= 1 /\ Len(ev) <= 1
    /\ DOMAIN store \subseteq GatewayIdSet
    /\ Len(recvLog) <= MaxRecv

----------------------------------------------------------------------------
(* Properties                                                              *)

\* The gateway ids an event names.
Named(e) == {GetGatewayId(e.identifiers[i]) : i \in DOMAIN e.identifiers}

\* Number of Recv calls that returned Unavailable.
Unavailables == Cardinality({i \in DOMAIN recvLog : recvLog[i].kind = "Unavailable"})

\* The last Recv call returned the error class err.
LastRecvIs(err) == recvLog # <<>> /\ Last(recvLog).kind = err

\* This step is a Recv call that returns the error class err.
RecvReturns(err) ==
    /\ Len(recvLog') = Len(recvLog) + 1
    /\ Last(recvLog').kind = err

IsPrefix(s, t) == Len(s) <= Len(t) /\ \A i \in DOMAIN s : s[i] = t[i]

\* The record the event e defines for gateway g, field by field.
HoldsEvent(rec, g, e) ==
    LET d == e.data.stats IN
    /\ rec.id = g
    /\ rec.connectTime   = (IF d.connectedAt = <<>> THEN 0 ELSE d.connectedAt[1])
    /\ rec.uplinkCount   = d.uplinkCount
    /\ rec.downlinkCount = d.downlinkCount
    /\ rec.txAckCount    = d.txAcknowledgmentCount
    /\ rec.uplinkTime    = (IF d.lastUplinkReceivedAt = <<>> THEN 0
                            ELSE d.lastUplinkReceivedAt[1])
    /\ rec.downlinkTime  = (IF d.lastDownlinkReceivedAt = <<>> THEN 0
                            ELSE d.lastDownlinkReceivedAt[1])
    /\ rec.txAckTime     = (IF d.lastTxAcknowledgmentReceivedAt = <<>> THEN 0
                            ELSE d.lastTxAcknowledgmentReceivedAt[1])

\* C1: after Recv returned Unavailable and the re-open succeeded, getEvents
\* does not terminate but goes on receiving on the new session.  Stated as
\* the claim has it; the code returns at line 184 after a successful re-open.
C1_ResumesAfterReopen ==
    (Len(opens) >= 2 /\ Last(opens).ok) => cpc # "done"

\* C2: a Canceled error from Recv causes no backoff wait and no re-open, does
\* not end getEvents, and leaves the session in place; until the next Recv
\* the consumer stays at Recv, and an event received next is converted and
\* sent as usual.
C2_CanceledAbsorbed ==
    /\ [](LastRecvIs("Canceled") => (cpc = "recv" /\ ret = "none"))
    /\ [][RecvReturns("Canceled") =>
            /\ cpc' = "recv"
            /\ ret' = "none"
            /\ UNCHANGED <<sleeps, opens, esc, decoded, taken>>]_vars
    /\ [][(LastRecvIs("Canceled") /\ RecvReturns("event")) =>
            /\ UNCHANGED <<sleeps, opens, esc>>
            /\ LET p == Last(recvLog').p IN
               p.payload # "invalid" =>
                   /\ cpc' = "send"
                   /\ eEvent'[1].name = p.name
                   /\ eEvent'[1].identifiers = p.ids]_vars

\* C2 witness: a Canceled error in mid-stream, then an event that reached the
\* reporter over the session opened first, with no sleep and no re-open.
C2_Witness ==
    /\ \E i \in 2..(Len(recvLog) - 1) :
        /\ recvLog[i].kind = "Canceled"
        /\ recvLog[i + 1].kind = "event"
        /\ taken # <<>>
        /\ Last(taken).identifiers = recvLog[i + 1].p.ids
        /\ Len(taken) = Len(decoded)
    /\ esc = 1 /\ sleeps = 0 /\ Len(opens) = 1

\* C3: every Unavailable error is answered by exactly one sleep, then exactly
\* one re-open, and every open asks for the identifiers of the client, which
\* never change; unless the process ends, the sleep and the re-open do happen.
C3_UnavailableOneSleepOneReopen ==
    /\ [](/\ cpc = "connect" => (opens = <<>> /\ sleeps = 0)
          /\ cpc = "sleep" => (sleeps = Unavailables - 1 /\ Len(opens) = Unavailables)
          /\ cpc = "reopen" => (sleeps = Unavailables /\ Len(opens) = Unavailables)
          /\ cpc \in {"recv", "send", "done"} =>
                (sleeps = Unavailables /\ Len(opens) = 1 + Unavailables)
          /\ \A i \in DOMAIN opens :
                /\ opens[i].req.Identifiers = gateways
                /\ opens[i].req = opens[1].req)
    /\ [][gateways' = gateways]_vars
    /\ cpc = "sleep" ~>
            \/ process = "exited"
            \/ /\ cpc = "done"
               /\ sleeps = Unavailables
               /\ Len(opens) = 1 + Unavailables

\* C3 witness: an Unavailable error after which the sleep and the re-open
\* have happened.
C3_Witness ==
    /\ LastRecvIs("Unavailable")
    /\ cpc = "done"
    /\ sleeps = 1
    /\ Len(opens) = 2
    /\ Len(gateways) = 2
    /\ opens[2].req.Identifiers = gateways

\* C4: the record stored for a gateway equals, field by field, the last
\* applied event that names it; nothing of an earlier event survives, also
\* where the last event leaves a field at zero.
C4_LatestWins ==
    \A g \in GatewayIdSet :
        LET idx == {i \in DOMAIN applied : g \in Named(applied[i])} IN
        idx # {} =>
            LET n == CHOOSE i \in idx : \A j \in idx : j <= i IN
            /\ g \in DOMAIN store
            /\ HoldsEvent(store[g], g, applied[n])

\* C4 witness: two events for gw1, the first with a connection time and the
\* second without; the record has the second event's zero.
C4_Witness ==
    /\ Len(applied) >= 2
    /\ "gw1" \in Named(applied[1]) /\ "gw1" \in Named(applied[2])
    /\ applied[1].data.stats.connectedAt # <<>>
    /\ applied[2].data.stats.connectedAt = <<>>
    /\ applied[2].data.stats.uplinkCount # applied[1].data.stats.uplinkCount
    /\ Len(applied) = 2
    /\ store["gw1"].connectTime = 0

\* C5: no gauge sample is ever published from a zero value: no sample of
\* gateway_time and none of gateway_count is zero.  Stated as the claim has
\* it; the code sets the time gauge of a kind whenever the count is not zero.
C5_NoZeroSample ==
    /\ \A k \in DOMAIN gwTime : gwTime[k] # 0
    /\ \A k \in DOMAIN gwCount : gwCount[k] # 0

\* C6: a payload that cannot be converted, or that has not the stats shape,
\* does not end the consumer loop: getEvents never terminates on a received
\* event.  Stated as the claim has it; the code returns when FromProto fails.
C6_PayloadNeverAborts ==
    ~(cpc = "done" /\ LastRecvIs("event"))

\* C7: when getEvents has ended with an error the process is not running any
\* more.  Stated as the claim has it; main drops the error of getEvents.
C7_FatalEndsProcess ==
    cpc = "done" => process = "exited"

\* C8: an error that is neither Canceled nor Unavailable ends getEvents at
\* once with an error: no sleep, no re-open, and afterwards no Recv and no
\* send on the channel.
C8_OtherIsFatal ==
    /\ [](LastRecvIs("Other") => (cpc = "done" /\ ret = "recv"))
    /\ [][RecvReturns("Other") =>
            /\ cpc' = "done"
            /\ ret' = "recv"
            /\ UNCHANGED <<sleeps, opens, esc, decoded, taken>>]_vars
    /\ [][LastRecvIs("Other") =>
            UNCHANGED <<recvLog, sleeps, opens, esc, cpc, ret, decoded, taken>>]_vars

\* C8 witness: an Other error in mid-stream ended getEvents while the reporter
\* was still at work on the event before it.
C8_Witness ==
    /\ LastRecvIs("Other")
    /\ Len(recvLog) >= 2
    /\ cpc = "done"
    /\ rpc = "process"
    /\ esc = 1 /\ sleeps = 0 /\ Len(opens) = 1

\* C9: the events taken off the channel are a prefix of the events converted,
\* in the same order, each once; the only event converted and not yet taken
\* is the one the consumer is blocked sending.
C9_HandoffInOrder ==
    /\ IsPrefix(taken, decoded)
    /\ IF cpc = "send"
       THEN /\ Len(decoded) = Len(taken) + 1
            /\ eEvent = <<Last(decoded)>>
       ELSE taken = decoded

\* C9 witness: two different events taken in order, the consumer blocked on
\* a third while the reporter is still at work on the second.
C9_Witness ==
    /\ Len(taken) = 2
    /\ taken[1] # taken[2]
    /\ rpc = "process"
    /\ cpc = "send"
    /\ Len(decoded) = 3

\* C10: applying one recognized event gives every gateway it names a record
\* with the event's values, stored under the gateway's id and carrying that
\* id; every other gateway keeps the record it had, or stays absent.
C10_FanOut ==
    [][applied' # applied =>
        LET e == Last(applied') IN
        \A g \in GatewayIdSet :
            IF g \in Named(e)
            THEN /\ g \in DOMAIN store'
                 /\ store'[g].id = g
                 /\ HoldsEvent(store'[g], g, e)
            ELSE /\ (g \in DOMAIN store') = (g \in DOMAIN store)
                 /\ g \in DOMAIN store => store'[g] = store[g]]_vars

\* C10 witness: an event naming gw1 and gw2 with uplink count 7 was applied,
\* then an event naming gw2 only; gw1 still has the 7.
C10_Witness ==
    /\ Len(applied) = 2
    /\ Named(applied[1]) = {"gw1", "gw2"}
    /\ applied[1].data.stats.uplinkCount = 7
    /\ Named(applied[2]) = {"gw2"}
    /\ store["gw1"].uplinkCount = 7
    /\ store["gw2"].uplinkCount = 0
    /\ store["gw1"].id = "gw1" /\ store["gw2"].id = "gw2"

\* The counted kinds, the fields of a Gateway record that belong to a kind and
\* the word that opens the kind's clause in the summary line.
Kinds == {"uplink", "downlink", "txack"}
CountOf(rec, k) ==
    IF k = "uplink" THEN rec.uplinkCount
    ELSE IF k = "downlink" THEN rec.downlinkCount
    ELSE rec.txAckCount
TimeOf(rec, k) ==
    IF k = "uplink" THEN rec.uplinkTime
    ELSE IF k = "downlink" THEN rec.downlinkTime
    ELSE rec.txAckTime
ClauseOf(k) ==
    IF k = "uplink" THEN "uplinks"
    ELSE IF k = "downlink" THEN "downlinks"
    ELSE "txAck"

\* The sample of gauge vector gv under key is the same before and after.
SameSample(gv, gvNext, key) ==
    /\ (key \in DOMAIN gvNext) = (key \in DOMAIN gv)
    /\ key \in DOMAIN gv => gvNext[key] = gv[key]

\* The event has the stats name and data of the stats type.
IsStatsEvent(e) ==
    /\ e.name = "gs.gateway.connection.stats"
    /\ e.data.type = "GatewayConnectionStats"

\* C11: a render of a record whose count for a kind is zero sets neither the
\* count gauge nor the time gauge of that gateway and kind, and the summary
\* line of the gateway has no clause for the kind.
C11_ZeroCountNotRendered ==
    [][applied' # applied =>
        \A g \in DOMAIN store' : \A k \in Kinds :
            CountOf(store'[g], k) = 0 =>
                /\ SameSample(gwCount, gwCount', <<g, k>>)
                /\ SameSample(gwTime, gwTime', <<g, k>>)
                /\ \E i \in DOMAIN summary' : summary'[i].id = g
                /\ \A i \in DOMAIN summary' :
                     summary'[i].id = g =>
                        \A j \in DOMAIN summary'[i].parts :
                            summary'[i].parts[j].clause # ClauseOf(k)]_vars

\* C11 witness: gw1 was rendered with a downlink count of zero and a downlink
\* time that is set; no downlink gauge exists for it and its line has a
\* txAck clause and nothing else.
C11_Witness ==
    /\ applied # <<>>
    /\ "gw1" \in DOMAIN store
    /\ store["gw1"].downlinkCount = 0
    /\ store["gw1"].downlinkTime # 0
    /\ <<"gw1", "downlink">> \notin DOMAIN gwCount
    /\ <<"gw1", "downlink">> \notin DOMAIN gwTime
    /\ \E i \in DOMAIN summary :
        /\ summary[i].id = "gw1"
        /\ \A j \in DOMAIN summary[i].parts :
             summary[i].parts[j].clause \in {"connected", "txAck"}

\* C12: when the re-open that follows an Unavailable error fails, getEvents
\* has ended with an error: one sleep and two Stream calls have been made,
\* and there is no further sleep, Stream call, Recv or send.
C12_FailedReopenIsFatal ==
    /\ []((Len(opens) >= 2 /\ ~Last(opens).ok) =>
            /\ cpc = "done"
            /\ ret = "during reconnect"
            /\ sleeps = 1
            /\ Len(opens) = 2)
    /\ [][(Len(opens) >= 2 /\ ~Last(opens).ok) =>
            UNCHANGED <<cpc, ret, sleeps, opens, esc, recvLog, decoded, taken>>]_vars

\* C12 witness: the re-open after an Unavailable error in mid-stream failed.
C12_Witness ==
    /\ Len(opens) = 2
    /\ opens[1].ok /\ ~opens[2].ok
    /\ LastRecvIs("Unavailable")
    /\ Len(recvLog) >= 2
    /\ cpc = "done"
    /\ esc = 1

\* Number of stats events among the events the reporter has finished with.
StatsEventsHandled ==
    LET done == IF rpc = "process" THEN SubSeq(taken, 1, Len(taken) - 1) ELSE taken
    IN  Cardinality({i \in DOMAIN done : IsStatsEvent(done[i])})

\* C13: only a stats event with stats data changes the map or a gauge: a
\* Canceled error changes nothing, an event of another name or with other
\* data changes nothing, and the number of applications equals the number of
\* stats events the reporter has handled.
C13_OnlyStatsEventsMutate ==
    /\ [](Len(applied) = StatsEventsHandled)
    /\ [][RecvReturns("Canceled") =>
            UNCHANGED <<store, gwTime, gwCount, summary, applied>>]_vars
    /\ [][(rpc = "process" /\ rpc' = "wait" /\ ~IsStatsEvent(ev[1])) =>
            UNCHANGED <<store, gwTime, gwCount, summary, applied>>]_vars
    /\ [][(store' # store \/ gwTime' # gwTime \/ gwCount' # gwCount) =>
            /\ rpc = "process"
            /\ IsStatsEvent(ev[1])
            /\ applied' = Append(applied, ev[1])]_vars

\* C13 witness: the stream E1 (gw1, 3 uplinks at 11), Canceled, E2 (gw1, 5
\* uplinks at 12) ends with 5 uplinks at 12 and two applications.
C13_Witness ==
    /\ Len(recvLog) = 3
    /\ recvLog[1].kind = "event" /\ recvLog[1].p.stats.uplinkCount = 3
    /\ recvLog[2].kind = "Canceled"
    /\ recvLog[3].kind = "event" /\ recvLog[3].p.stats.uplinkCount = 5
    /\ rpc = "wait"
    /\ Len(applied) = 2
    /\ store["gw1"].uplinkCount = 5
    /\ store["gw1"].uplinkTime = 12

\* C14: the map has a record for a gateway exactly when an applied event has
\* named it, and no key ever leaves the map.
C14_StoreLifecycle ==
    /\ [](DOMAIN store = UNION {Named(applied[i]) : i \in DOMAIN applied})
    /\ [][DOMAIN store \subseteq DOMAIN store']_vars

\* C14 witness: one event created gw2, a later event naming gw1 alone created
\* gw1, and gw2 is still there.
C14_Witness ==
    /\ Len(applied) = 2
    /\ Named(applied[1]) = {"gw2"}
    /\ Named(applied[2]) = {"gw1"}
    /\ DOMAIN store = {"gw1", "gw2"}

\* The ids of the summary lines, in the order written.
SummaryIds == [i \in DOMAIN summary |-> summary[i].id]

\* Sequence ids is strictly ascending in the string order of the ids.
Ascending(ids) ==
    \A i, j \in DOMAIN ids :
        i < j => \E a, b \in DOMAIN IdOrder :
                    /\ a < b
                    /\ IdOrder[a] = ids[i]
                    /\ IdOrder[b] = ids[j]

\* C15 as stated: after an applied event the summary has one line for each
\* gateway the event names, and for no other, in ascending order of the ids.
\* The code writes a line for every gateway of the map.
C15_LinesForNamedOnly ==
    applied # <<>> =>
        /\ Range(SummaryIds) = Named(Last(applied))
        /\ Len(summary) = Cardinality(Named(Last(applied)))
        /\ Ascending(SummaryIds)

\* C15 amended: after an applied event the summary has one line for each
\* gateway of the map, those the event names among them, in ascending order
\* of the ids.
C15_LinesForWholeStore ==
    applied # <<>> =>
        /\ Range(SummaryIds) = DOMAIN store
        /\ Len(summary) = Cardinality(DOMAIN store)
        /\ Named(Last(applied)) \subseteq Range(SummaryIds)
        /\ Ascending(SummaryIds)
        /\ \A i \in DOMAIN summary : \A j \in DOMAIN summary[i].parts :
             summary[i].parts[j].clause \in {"connected", "uplinks", "downlinks", "txAck"}

\* C15 witness: after an event that lists gw2 before gw1 and an event naming
\* gw1 alone, the summary has the line of gw1 and then the line of gw2.
C15_Witness ==
    /\ Len(applied) = 2
    /\ applied[1].identifiers = <<EntityId("gw2"), EntityId("gw1")>>
    /\ Named(applied[2]) = {"gw1"}
    /\ Len(summary) = 2
    /\ summary[1].id = "gw1"
    /\ summary[2].id = "gw2"

\* C16 as stated: once getEvents has ended, neither the map nor a gauge
\* changes again.  The reporter may still be at work on the last event it
\* took when getEvents ends.
C16_FrozenOnceEnded ==
    [][cpc = "done" => UNCHANGED <<store, gwTime, gwCount>>]_vars

\* C16 amended: once getEvents has ended and the reporter has finished the
\* last event forwarded, neither the map nor a gauge changes again; every
\* stats event forwarded has been applied by then.
C16_FrozenOnceDrained ==
    /\ []((cpc = "done" /\ rpc = "wait") => applied = SelectSeq(decoded, IsStatsEvent))
    /\ [][(cpc = "done" /\ rpc = "wait") =>
            UNCHANGED <<store, gwTime, gwCount, summary>>]_vars

\* C16 witness: getEvents has ended on an error after an event was applied,
\* and the reporter waits.
C16_Witness ==
    /\ cpc = "done"
    /\ ret = "recv"
    /\ rpc = "wait"
    /\ applied # <<>>
    /\ DOMAIN gwTime # {}

\* C17: when the reporter has finished an applied event, every gateway of the
\* map and every counted kind with a count that is not zero has a count gauge
\* equal to the stored count and a time gauge equal to the stored time.
C17_GaugesFollowStore ==
    (applied # <<>> /\ rpc = "wait") =>
        \A g \in DOMAIN store : \A k \in Kinds :
            CountOf(store[g], k) # 0 =>
                /\ <<g, k>> \in DOMAIN gwCount
                /\ <<g, k>> \in DOMAIN gwTime
                /\ gwCount[<<g, k>>] = CountOf(store[g], k)
                /\ gwTime[<<g, k>>] = TimeOf(store[g], k)

\* C17 witness: gw1 and gw2 got downlink and uplink counts from one event,
\* the last event named gw2 alone, and the gauges of gw1 still agree with its
\* record.
C17_Witness ==
    /\ rpc = "wait"
    /\ Len(applied) = 2
    /\ Named(applied[2]) = {"gw2"}
    /\ "gw1" \in DOMAIN store
    /\ store["gw1"].uplinkCount = 7
    /\ store["gw1"].downlinkCount = 1
    /\ gwCount[<<"gw1", "downlink">>] = 1
    /\ gwTime[<<"gw1", "downlink">>] = 13
    /\ gwTime[<<"gw1", "uplink">>] = 0

\* The count and the time an event carries for a kind.
EventCount(e, k) ==
    IF k = "uplink" THEN e.data.stats.uplinkCount
    ELSE IF k = "downlink" THEN e.data.stats.downlinkCount
    ELSE e.data.stats.txAcknowledgmentCount
EventTime(e, k) ==
    LET ts == IF k = "uplink" THEN e.data.stats.lastUplinkReceivedAt
              ELSE IF k = "downlink" THEN e.data.stats.lastDownlinkReceivedAt
              ELSE e.data.stats.lastTxAcknowledgmentReceivedAt
    IN  IF ts = <<>> THEN 0 ELSE ts[1]

\* C18: a sample once published is never removed, and the gauges of a gateway
\* and kind hold the count and time of the last applied event that names the
\* gateway with a count for the kind that is not zero; there is no sample
\* when there was no such event.
C18_GaugeKeepsLastNonZero ==
    /\ [](\A g \in GatewayIdSet : \A k \in Kinds :
            LET idx == {i \in DOMAIN applied :
                          g \in Named(applied[i]) /\ EventCount(applied[i], k) # 0}
            IN  IF idx = {}
                THEN /\ <<g, k>> \notin DOMAIN gwCount
                     /\ <<g, k>> \notin DOMAIN gwTime
                ELSE LET n == CHOOSE i \in idx : \A j \in idx : j <= i IN
                     /\ <<g, k>> \in DOMAIN gwCount
                     /\ <<g, k>> \in DOMAIN gwTime
                     /\ gwCount[<<g, k>>] = EventCount(applied[n], k)
                     /\ gwTime[<<g, k>>] = EventTime(applied[n], k))
    /\ [][/\ DOMAIN gwCount \subseteq DOMAIN gwCount'
          /\ DOMAIN gwTime \subseteq DOMAIN gwTime']_vars

\* C18 witness: the last event for gw1 has no downlinks, the record of gw1
\* has a downlink count of zero and the gauge still shows the 1 of the event
\* before.
C18_Witness ==
    /\ Len(applied) >= 2
    /\ "gw1" \in Named(Last(applied))
    /\ Last(applied).data.stats.downlinkCount = 0
    /\ store["gw1"].downlinkCount = 0
    /\ <<"gw1", "downlink">> \in DOMAIN gwCount
    /\ gwCount[<<"gw1", "downlink">>] = 1
    /\ gwTime[<<"gw1", "downlink">>] = 13

\* C19 as stated: when getEvents has returned it has returned an error and
\* the reporter is blocked on the channel.  The reporter may still be at work
\* on the last event it took.
C19_BlockedOnceReturned ==
    cpc = "done" => (ret # "none" /\ rpc = "wait")

\* C19 amended: getEvents returns only with an error; once it has returned it
\* stays returned and nothing more is sent or taken; the reporter finishes the
\* event it has in hand, if any, and from then on stays blocked on the channel.
C19_ReporterBlocksForever ==
    /\ [](cpc = "done" => ret # "none")
    /\ [][cpc = "done" =>
            UNCHANGED <<cpc, ret, eEvent, recvLog, decoded, taken, ev>>]_vars
    /\ [][(cpc = "done" /\ rpc = "wait") => rpc' = "wait"]_vars
    /\ cpc = "done" ~> (process = "exited" \/ rpc = "wait")

\* C19 witness: getEvents has returned on a payload it could not convert, all
\* events sent before were taken and the reporter waits.
C19_Witness ==
    /\ cpc = "done"
    /\ ret = "FromProto"
    /\ rpc = "wait"
    /\ taken # <<>>
    /\ taken = decoded

====
